---- MODULE Spec2Model ----
(***************************************************************************)
(* Model of the primality-test crate: the Montgomery engine               *)
(* (src/src/montgomery.rs), the linear sieve (src/src/sieve.rs), the      *)
(* Miller-Rabin decision of the IsPrime trait (src/src/lib.rs) and the    *)
(* const fn is_prime (src/src/constfn.rs).                                 *)
(*                                                                         *)
(* A machine integer of type uW is a little-endian sequence of W/8 digits  *)
(* in base 2^8, so that u64 and u128 values keep their width although the  *)
(* model checker's own integers have 32 bits.  The sieve's usize values    *)
(* are small (indices below LEN) and are plain integers.                   *)
(***************************************************************************)
EXTENDS Integers, Sequences, FiniteSets, TLC

VARIABLES
    mg,       \* the call of Montgomery::new under way (a NewInit record)
    iters,    \* how often the body of its while loop has run
    op,       \* the last operation on the finished context and its result
    sieve,    \* the call of LinearSieve::new under way (a SieveInit record)
    innerw,   \* per index, the writes of line 61 so far
    outerw,   \* per index, the writes of line 57 so far
    query,    \* the last query of the finished sieve (is_prime, factors)
    mr,       \* the run of IsPrime::is_prime under way (an IsPrimeInit record)
    input,    \* the value is_prime was called on
    cf,       \* the run of the const fn is_prime under way
    skips     \* how many witnesses that run has skipped (line 34)

vars == <<mg, iters, op, sieve, innerw, outerw, query, mr, input, cf, skips>>

\* ------------------------------------------------------------------------
\* Machine integers: Rust's primitive operations on uW
\* ------------------------------------------------------------------------

Radix == 2^8

\* <$t>::BITS of the type a value has
BITS(x) == 8 * Len(x)

Max(a, b) == IF a >= b THEN a ELSE b
Min(a, b) == IF a <= b THEN a ELSE b

\* the digits of a function on 1..n, as a tuple
Digits(f, n) == SubSeq(f, 1, n)

\* the literal v (0 <= v < 2^31) as a value of n digits
FromInt(v, n) ==
    Digits([k \in 1..n |-> IF k <= 4 THEN (v \div Radix^(k - 1)) % Radix ELSE 0], n)

\* a value is small enough to be an integer of the model checker
FitsInt(x) == \A k \in 1..Len(x) : (k > 4 => x[k] = 0) /\ (k = 4 => x[k] < 128)

DigitOr0(x, k) == IF k >= 1 /\ k <= Len(x) THEN x[k] ELSE 0

\* the three digits from digit k on, as one number below 2^24
Block(x, k) ==
    DigitOr0(x, k) + Radix * DigitOr0(x, k + 1) + Radix * Radix * DigitOr0(x, k + 2)

\* the digits of a number below 2^24
Unblock(v) == <<v % Radix, (v \div Radix) % Radix, (v \div (Radix * Radix)) % Radix>>

\* the integer a value denotes (FitsInt values only)
ToInt(x) == Block(x, 1) + Radix * Radix * Radix * DigitOr0(x, 4)

\* `x as uN`: truncation or zero extension to n digits
Cast(x, n) == SubSeq(x \o [k \in 1..n |-> 0], 1, n)

\* number of digits up to the highest non-zero one
SigLen(x) ==
    IF \A k \in 1..Len(x) : x[k] = 0 THEN 0
    ELSE CHOOSE k \in 1..Len(x) : x[k] # 0 /\ \A j \in (k + 1)..Len(x) : x[j] = 0

IsZero(x) == \A k \in 1..Len(x) : x[k] = 0

\* comparison, three digits at a time from the block that starts at digit k
RECURSIVE LtFrom(_, _, _)
LtFrom(x, y, k) ==
    IF k < 1 THEN FALSE
    ELSE IF Block(x, k) # Block(y, k) THEN Block(x, k) < Block(y, k)
    ELSE LtFrom(x, y, k - 3)

\* x < y, for values of one type
Lt(x, y) == LtFrom(x, y, 3 * ((Len(x) + 2) \div 3) - 2)

\* addition with carry c, three digits at a time
RECURSIVE AddFrom(_, _, _, _)
AddFrom(x, y, k, c) ==
    IF k > Len(x) THEN <<>>
    ELSE LET s == Block(x, k) + Block(y, k) + c
         IN  Unblock(s % 2^24) \o AddFrom(x, y, k + 3, s \div 2^24)

\* x + y + c modulo 2^W
AddCarry(x, y, c) == SubSeq(AddFrom(x, y, 1, c), 1, Len(x))

wrapping_add(x, y) == AddCarry(x, y, 0)

\* subtraction with borrow b, three digits at a time
RECURSIVE SubFrom(_, _, _, _)
SubFrom(x, y, k, b) ==
    IF k > Len(x) THEN <<>>
    ELSE LET d == Block(x, k) - Block(y, k) - b
         IN  IF d < 0 THEN Unblock(d + 2^24) \o SubFrom(x, y, k + 3, 1)
             ELSE Unblock(d) \o SubFrom(x, y, k + 3, 0)

wrapping_sub(x, y) == SubSeq(SubFrom(x, y, 1, 0), 1, Len(x))

\* (x - y mod 2^W, whether the subtraction borrowed)
overflowing_sub(x, y) == [val |-> wrapping_sub(x, y), ovf |-> Lt(x, y)]

wrapping_neg(x) == wrapping_sub(Cast(<<>>, Len(x)), x)

\* sum of the digit products x[i] * y[k - i + 1], i = lo..hi
RECURSIVE ColSum(_, _, _, _, _)
ColSum(x, y, k, i, hi) ==
    IF i > hi THEN 0
    ELSE IF i = hi THEN x[i] * y[k - i + 1]
    ELSE x[i] * y[k - i + 1] + x[i + 1] * y[k - i] + ColSum(x, y, k, i + 2, hi)

\* column k of the product of the first n digits of x and m digits of y
Column(x, y, n, m, k) == ColSum(x, y, k, Max(1, k - m + 1), Min(n, k))

\* the digits of the product from digit st.k on, four at a time, st.c the
\* carry into digit st.k
RECURSIVE MulFrom(_, _, _, _, _)
MulFrom(x, y, n, m, st) ==
    IF st.k > n + m THEN <<>>
    ELSE LET s1 == Column(x, y, n, m, st.k) + st.c
             s2 == Column(x, y, n, m, st.k + 1) + (s1 \div Radix)
             s3 == Column(x, y, n, m, st.k + 2) + (s2 \div Radix)
             s4 == Column(x, y, n, m, st.k + 3) + (s3 \div Radix)
         IN  <<s1 % Radix, s2 % Radix, s3 % Radix, s4 % Radix>>
             \o MulFrom(x, y, n, m, [k |-> st.k + 4, c |-> s4 \div Radix])

\* the exact product of two values, SigLen(x) + SigLen(y) digits long
Product(x, y) ==
    SubSeq(MulFrom(x, y, SigLen(x), SigLen(y), [k |-> 1, c |-> 0]), 1,
           SigLen(x) + SigLen(y))

\* x.wrapping_mul(y): the product modulo 2^W
wrapping_mul(x, y) == Cast(Product(x, y), Len(x))

\* x * y: the product, and whether it overflowed the type
checked_mul(x, y) ==
    LET p == Product(x, y)
    IN  [val |-> Cast(p, Len(x)),
         ovf |-> \E k \in 1..Len(p) : k > Len(x) /\ p[k] # 0]

\* bit i (from 0) of x
Bit(x, i) == (x[(i \div 8) + 1] \div 2^(i % 8)) % 2

\* x >> s, for 0 <= s < BITS
Shr(x, s) ==
    LET q == s \div 8
        b == s % 8
    IN  Digits([k \in 1..Len(x) |->
                   (DigitOr0(x, k + q) \div 2^b)
                   + (DigitOr0(x, k + q + 1) % 2^b) * 2^(8 - b)], Len(x))

\* x << s, for 0 <= s < BITS
Shl(x, s) ==
    LET q == s \div 8
        b == s % 8
    IN  Digits([k \in 1..Len(x) |->
                   ((DigitOr0(x, k - q) * 2^b) % Radix)
                   + (DigitOr0(x, k - q - 1) \div 2^(8 - b))], Len(x))

trailing_zeros(x) ==
    IF IsZero(x) THEN BITS(x)
    ELSE CHOOSE i \in 0..(BITS(x) - 1) :
            Bit(x, i) = 1 /\ \A j \in 0..(i - 1) : Bit(x, j) = 0

\* Long division, digit by digit.  r is the remainder so far (r < y) with
\* the next digit d of the dividend taken in: r * 2^8 + d.  m is SigLen(y).
\* The quotient digit is estimated from the three leading digits of r and
\* the two leading digits of y; the estimate is the digit or one more.
RemDigit(r, y, m) ==
    LET y2 == IF m >= 2 THEN y[m] * Radix + y[m - 1] ELSE y[m]
        r3 == IF m >= 2 THEN Block(r, m - 1) ELSE Block(r, 1)
        q  == Min(Radix - 1, r3 \div y2)
        p  == Cast(Product(y, <<q>>), Len(r))
    IN  IF Lt(r, p) THEN wrapping_sub(wrapping_add(r, y), p)
        ELSE wrapping_sub(r, p)

\* the remainder r with the digit d taken in below it
Push(r, d) == <<d>> \o SubSeq(r, 1, Len(r) - 1)

\* four digits of x, from digit st.k down, taken into the remainder st.r
RemChunk(x, y, m, st) ==
    [[[[st EXCEPT !.r = RemDigit(Push(@, DigitOr0(x, st.k)), y, m)]
           EXCEPT !.r = RemDigit(Push(@, DigitOr0(x, st.k - 1)), y, m)]
           EXCEPT !.r = RemDigit(Push(@, DigitOr0(x, st.k - 2)), y, m)]
           EXCEPT !.r = RemDigit(Push(@, DigitOr0(x, st.k - 3)), y, m),
                  !.k = st.k - 4]

\* from digit st.k of x down to the first, st.r the remainder so far
RECURSIVE RemFrom(_, _, _, _)
RemFrom(x, y, m, st) ==
    IF st.k < 1 THEN st.r ELSE RemFrom(x, y, m, RemChunk(x, y, m, st))

\* x % y for y # 0 (a zero divisor panics and is the caller's case)
Rem(x, y) ==
    LET n == Len(x)
    IN  Cast(RemFrom(x, Cast(y, n + 1), SigLen(y),
                     [k |-> 4 * ((SigLen(x) + 3) \div 4), r |-> Cast(<<>>, n + 1)]), n)

\* ------------------------------------------------------------------------
\* Montgomery engine (src/src/montgomery.rs); a context is the record
\* [modulo, modulo_inv, r, r2] of values of one type $t, $expand has twice
\* its digits
\* ------------------------------------------------------------------------

\* multiply is the composition of its statements over the locals
\* [a, m, q, t, f, ovf, ret]; ovf tells whether a `*` overflowed its type

\* line 27: a = lhs as $expand * rhs as $expand
multiply_a(self, lhs, rhs) ==
    LET n == Len(self.modulo)
        p == checked_mul(Cast(lhs, 2 * n), Cast(rhs, 2 * n))
    IN  [a |-> p.val, ovf |-> p.ovf, m |-> <<>>, q |-> <<>>, t |-> <<>>, f |-> 0,
         ret |-> <<>>]

\* line 29: (a as $t).wrapping_mul(self.modulo_inv) as $expand
multiply_m(self, l) ==
    LET n == Len(self.modulo)
    IN  [l EXCEPT !.m = Cast(wrapping_mul(Cast(l.a, n), self.modulo_inv), 2 * n)]

\* lines 30-31: (m.wrapping_mul(self.modulo as $expand) >> BITS) as $t
multiply_q(self, l) ==
    LET n == Len(self.modulo)
    IN  [l EXCEPT !.q = Cast(Shr(wrapping_mul(l.m, Cast(self.modulo, 2 * n)), 8 * n), n)]

\* line 28: (t, f) = ((a >> BITS) as $t).overflowing_sub(q)
multiply_tf(self, l) ==
    LET n  == Len(self.modulo)
        hi == Cast(Shr(l.a, 8 * n), n)
    IN  [l EXCEPT !.t = wrapping_sub(hi, l.q), !.f = IF Lt(hi, l.q) THEN 1 ELSE 0]

\* a variant of line 33 without the addition of modulo after a borrow
multiply_retNoCorrection(self, l) == [l EXCEPT !.ret = l.t]

\* line 33: t.wrapping_add(self.modulo * f as $t)
multiply_ret(self, l) ==
    LET c == checked_mul(self.modulo, FromInt(l.f, Len(self.modulo)))
    IN  [l EXCEPT !.ret = wrapping_add(l.t, c.val), !.ovf = l.ovf \/ c.ovf]

\* multiply, lines 26-34, with its locals
MultiplyParts(self, lhs, rhs) ==
    multiply_ret(self, multiply_tf(self, multiply_q(self,
        multiply_m(self, multiply_a(self, lhs, rhs)))))

Montgomery_multiply(self, lhs, rhs) == MultiplyParts(self, lhs, rhs).ret

Montgomery_convert(self, val) == Montgomery_multiply(self, val, self.r2)

\* pow, line 41: the locals [res, val, exp] before the loop
PowInit(self, val, exp) == [res |-> self.r, val |-> val, exp |-> exp]

\* pow, line 42: the condition of the loop
PowCond(st) == ~IsZero(st.exp)

\* pow, lines 43-47: the body of the loop
PowIter(self, st) ==
    [res |-> IF Bit(st.exp, 0) # 0
             THEN Montgomery_multiply(self, st.res, st.val)
             ELSE st.res,
     val |-> Montgomery_multiply(self, st.val, st.val),
     exp |-> Shr(st.exp, 1)]

\* new, line 53: r = ((1 as $expand) << BITS) % modulo
NewR(modulo) ==
    LET n == Len(modulo)
    IN  Cast(Rem(Shl(FromInt(1, 2 * n), 8 * n), Cast(modulo, 2 * n)), n)

\* a variant of line 54 without the casts to the double width: the
\* negation wraps at 2^W
NewR2Narrow(modulo) == Rem(wrapping_neg(modulo), modulo)

\* new, line 54: r2 = (modulo as $expand).wrapping_neg() % modulo
NewR2(modulo) ==
    LET n == Len(modulo)
    IN  Cast(Rem(wrapping_neg(Cast(modulo, 2 * n)), Cast(modulo, 2 * n)), n)

\* new, line 57: the condition of the while loop
InvCond(modulo, inv) == wrapping_mul(modulo, inv) # FromInt(1, Len(modulo))

\* a variant of line 58 with an addition for the subtraction
InvStepAdd(modulo, inv) ==
    wrapping_mul(inv, wrapping_add(FromInt(2, Len(modulo)), wrapping_mul(modulo, inv)))

\* new, line 58: the body of the while loop
InvStep(modulo, inv) ==
    wrapping_mul(inv, wrapping_sub(FromInt(2, Len(modulo)), wrapping_mul(modulo, inv)))

\* A call of new is the record [modulo, at, r, r2, inv] with `at` the place
\* of control: "r" (line 53), "r2" (line 54), "loop" (line 57), "done"
\* (line 62), "panic" (the remainder of line 53 by a zero modulo)
NewInit(modulo) ==
    [modulo |-> modulo, at |-> "r",
     r   |-> Cast(<<>>, Len(modulo)),
     r2  |-> Cast(<<>>, Len(modulo)),
     inv |-> Cast(<<>>, Len(modulo))]

NewStep(st) ==
    CASE st.at = "r" ->
            IF IsZero(st.modulo) THEN [st EXCEPT !.at = "panic"]
            ELSE [st EXCEPT !.r = NewR(st.modulo), !.at = "r2"]
      [] st.at = "r2" ->
            [st EXCEPT !.r2 = NewR2(st.modulo), !.inv = st.modulo, !.at = "loop"]
      [] st.at = "loop" ->
            IF InvCond(st.modulo, st.inv)
            THEN [st EXCEPT !.inv = InvStep(st.modulo, st.inv)]
            ELSE [st EXCEPT !.at = "done"]
      [] OTHER -> st

\* lines 62-67: the context a finished call returns
Context(st) ==
    [modulo |-> st.modulo, modulo_inv |-> st.inv, r |-> st.r, r2 |-> st.r2]

\* ------------------------------------------------------------------------
\* Linear sieve (src/src/sieve.rs).  usize values are plain integers; the
\* arrays are functions on 0..LEN-1.  A construction state is the record
\* [LEN, primes, pc, arr, i, j, at]: the locals of new() and the place of
\* control: "outer" (line 53), "inner" (line 60), "done" (line 67), "panic"
\* (an index out of bounds).
\* ------------------------------------------------------------------------

\* usize::MAX, as the largest integer of the model checker
USIZE_MAX == 2147483647

saturating_mul(a, b) ==
    IF a # 0 /\ b > USIZE_MAX \div a THEN USIZE_MAX ELSE a * b

\* new, lines 49-52
SieveInit(LEN) ==
    [LEN    |-> LEN,
     primes |-> [k \in 0..(LEN - 1) |-> 0],
     pc     |-> 0,
     arr    |-> [k \in 0..(LEN - 1) |-> USIZE_MAX],
     i      |-> 2,
     j      |-> 0,
     at     |-> "outer"]

InRange(st, k) == 0 <= k /\ k < st.LEN

\* new, lines 53-59: the test of the outer loop and the body up to j = 0
SieveOuter(st) ==
    IF ~(st.i < st.LEN) THEN [st EXCEPT !.at = "done"]
    ELSE IF st.arr[st.i] = USIZE_MAX
         THEN IF ~InRange(st, st.pc) THEN [st EXCEPT !.at = "panic"]
              ELSE [st EXCEPT !.primes[st.pc] = st.i,
                              !.pc = st.pc + 1,
                              !.arr[st.i] = st.i,
                              !.j = 0,
                              !.at = "inner"]
         ELSE [st EXCEPT !.j = 0, !.at = "inner"]

\* a variant of line 60 with `<` for `<=`: the square of a prime is not
\* marked
InnerCondStrict(st) ==
    /\ st.j < st.pc
    /\ st.primes[st.j] < st.arr[st.i]
    /\ saturating_mul(st.primes[st.j], st.i) < st.LEN

\* a variant of line 60 without the bound by arr[i]: a composite is marked
\* once for each of its prime factors below the cofactor
InnerCondEveryPrime(st) ==
    /\ st.j < st.pc
    /\ saturating_mul(st.primes[st.j], st.i) < st.LEN

\* new, line 60: the condition of the inner loop (j < pc guards primes[j])
InnerCond(st) ==
    /\ st.j < st.pc
    /\ st.primes[st.j] <= st.arr[st.i]
    /\ saturating_mul(st.primes[st.j], st.i) < st.LEN

\* an index of line 60 or 61 is out of bounds
InnerFaults(st) ==
    \/ st.j < st.pc /\ ~InRange(st, st.j)
    \/ InnerCond(st) /\ ~InRange(st, st.primes[st.j] * st.i)

\* new, lines 60-64: one test of the inner loop, then its body or i += 1
SieveInner(st) ==
    IF InnerFaults(st) THEN [st EXCEPT !.at = "panic"]
    ELSE IF InnerCond(st)
         THEN [st EXCEPT !.arr[st.primes[st.j] * st.i] = st.primes[st.j],
                         !.j = st.j + 1]
         ELSE [st EXCEPT !.i = st.i + 1, !.at = "outer"]

SieveStep(st) ==
    IF st.at = "outer" THEN SieveOuter(st)
    ELSE IF st.at = "inner" THEN SieveInner(st)
    ELSE st

\* n steps of the construction (a finished construction stays as it is)
RECURSIVE SieveSteps(_, _)
SieveSteps(st, n) ==
    IF st.at \in {"done", "panic"} \/ n = 0 THEN st
    ELSE IF n = 1 THEN SieveStep(st)
    ELSE SieveSteps(SieveSteps(st, n \div 2), n - (n \div 2))

\* the construction run to its end
RECURSIVE SieveRun(_, _)
SieveRun(st, n) ==
    IF st.at \in {"done", "panic"} THEN st ELSE SieveRun(SieveSteps(st, n), 2 * n)

\* LinearSieve::<LEN>::new(): the table `arr` of the sieve it returns
LinearSieve_new(LEN) == SieveRun(SieveInit(LEN), 1).arr

\* len(): the length of the internal array
LinearSieve_len(arr) == Cardinality(DOMAIN arr)

\* is_prime(value), line 96, for value < LEN
LinearSieve_is_prime(arr, value) == arr[value] = value

\* is_prime(value) as a call: [status, ret], the index out of bounds panics
IsPrimeCall(arr, value) ==
    IF ~(value < LinearSieve_len(arr)) THEN [status |-> "panic", ret |-> FALSE]
    ELSE [status |-> "ok", ret |-> LinearSieve_is_prime(arr, value)]

\* factors(value), lines 123-131: the iterator it returns, which has done
\* nothing yet; it is the record [value, out, status] with out what it has
\* yielded and status "iter", "end" (next() returned None) or "panic"
LinearSieve_factors(value) == [value |-> value, out |-> <<>>, status |-> "iter"]

\* a variant of line 125 with `value > 2` for `value > 1`
FactorsNextAboveTwo(arr, it) ==
    IF ~(it.value > 2) THEN [it EXCEPT !.status = "end"]
    ELSE IF ~(it.value < LinearSieve_len(arr)) THEN [it EXCEPT !.status = "panic"]
    ELSE [it EXCEPT !.value = @ \div arr[it.value],
                    !.out = Append(@, arr[it.value])]

\* next() on the iterator of factors, lines 124-130
FactorsNext(arr, it) ==
    IF ~(it.value > 1) THEN [it EXCEPT !.status = "end"]
    ELSE IF ~(it.value < LinearSieve_len(arr)) THEN [it EXCEPT !.status = "panic"]
    ELSE [it EXCEPT !.value = @ \div arr[it.value],
                    !.out = Append(@, arr[it.value])]

\* lib.rs line 15
SMALL_PRIMES_MEMO == LinearSieve_new(255)

\* ------------------------------------------------------------------------
\* IsPrime::is_prime (src/src/lib.rs, impl_is_prime!).  The type $witness_ty
\* is the number of digits of p: 1, 2, 4 or 8 (usize is u64).  A call is the
\* record [p, at, new, s, t, wi, a, pw, x, j, ret]: the locals (new is the
\* call of Montgomery::new, pw the locals of pow, x the variable `at` of the
\* closure, j the place in the range 1..s) and the place of control `at`:
\* "entry" (line 39), "cascade" (line 43), "memo" (line 47), "new" (line
\* 51), "split" (lines 53-54), "witness" (line 63), "pow" (line 65),
\* "check" (line 67), "scan" (lines 72-77), "return".
\* ------------------------------------------------------------------------

\* a variant of the witness table: base 2 alone for every type
WitnessesBaseTwo(n) == <<2>>

\* lib.rs lines 84-95: the witnesses of each type
Witnesses(n) ==
    IF n = 8 THEN <<2, 325, 9375, 28178, 450775, 9780504, 1795265022>>
    ELSE <<2, 7, 61>>

\* line 37: the call of is_prime on p
IsPrimeInit(p) ==
    [p |-> p, at |-> "entry", new |-> NewInit(p), s |-> 0, t |-> p, wi |-> 1,
     a |-> p, pw |-> [res |-> p, val |-> p, exp |-> p], x |-> p, j |-> 0,
     ret |-> FALSE]

Return(st, v) == [st EXCEPT !.ret = v, !.at = "return"]

\* lines 39-41
IsPrimeEntry(st) ==
    IF st.p = FromInt(1, Len(st.p)) \/ Bit(st.p, 0) = 0
    THEN Return(st, st.p = FromInt(2, Len(st.p)))
    ELSE [st EXCEPT !.at = "cascade"]

\* a variant of lines 43-45 where a small u64 is not judged as a u32
IsPrimeCascadeNone(st) == [st EXCEPT !.at = "memo"]

\* lines 43-45: a small u64 is judged again as a u32
IsPrimeCascade(st) ==
    IF BITS(st.p) = 64 /\ Lt(Cast(st.p, 8), FromInt(1795265022, 8))
    THEN IsPrimeInit(Cast(st.p, 4))
    ELSE [st EXCEPT !.at = "memo"]

\* lines 47-49: the answer of the 255-entry sieve
IsPrimeMemo(st) ==
    IF Lt(st.p, Cast(FromInt(LinearSieve_len(SMALL_PRIMES_MEMO), 8), Len(st.p)))
    THEN Return(st, LinearSieve_is_prime(SMALL_PRIMES_MEMO, ToInt(st.p)))
    ELSE [st EXCEPT !.at = "new"]

\* line 51: Montgomery::new(p), one step of it at a time
IsPrimeNew(st) ==
    IF st.new.at = "done" THEN [st EXCEPT !.at = "split"]
    ELSE [st EXCEPT !.new = NewStep(@)]

\* lines 53-54: s = (p - 1).trailing_zeros(), t = (p - 1) >> s
IsPrimeSplit(st) ==
    LET m == wrapping_sub(st.p, FromInt(1, Len(st.p)))
        s == trailing_zeros(m)
    IN  [st EXCEPT !.s = s, !.t = Shr(m, s), !.at = "witness"]

\* lines 63-65: all() takes the next witness a (true when none is left);
\* a = mont.convert(a) and the call mont.pow(a, t) begins
IsPrimeWitness(st) ==
    LET n == Len(st.p)
        a == Montgomery_convert(Context(st.new), FromInt(Witnesses(n)[st.wi], n))
    IN  IF st.wi > Len(Witnesses(n)) THEN Return(st, TRUE)
        ELSE [st EXCEPT !.a = a, !.pw = PowInit(Context(st.new), a, st.t),
                        !.at = "pow"]

\* line 65: mont.pow(a, t), one test of its loop at a time; `at` is what it
\* returns
IsPrimePow(st) ==
    IF PowCond(st.pw) THEN [st EXCEPT !.pw = PowIter(Context(st.new), @)]
    ELSE [st EXCEPT !.x = st.pw.res, !.at = "check"]

\* lines 67-69: at == mont.r || at == p - mont.r
IsPrimeCheck(st) ==
    IF st.x = st.new.r \/ st.x = wrapping_sub(st.p, st.new.r)
    THEN [st EXCEPT !.wi = @ + 1, !.at = "witness"]
    ELSE [st EXCEPT !.j = 1, !.at = "scan"]

\* lines 72-77: the next element of (1..s).scan(..), tested by any(); the
\* closure of all() returns what any() returns
IsPrimeScan(st) ==
    IF ~(st.j < st.s) THEN Return(st, FALSE)
    ELSE LET sq == Montgomery_multiply(Context(st.new), st.x, st.x)
         IN  IF sq = wrapping_sub(st.p, st.new.r)
             THEN [st EXCEPT !.x = sq, !.wi = @ + 1, !.at = "witness"]
             ELSE [st EXCEPT !.x = sq, !.j = @ + 1]

\* ------------------------------------------------------------------------
\* const fn is_prime(p: u64) (src/src/constfn.rs).  A call is the record
\* [p, at, new, s, t, i, a, pw, x, found, j, ret]; x is the variable `at`
\* of the code and `at` the place of control: "entry" (line 21), "new"
\* (line 25), "split" (lines 27-28), "loop" (line 32), "pow" (line 36),
\* "found" (line 39), "scan" (line 43), "after" (line 49), "return".
\* ------------------------------------------------------------------------

\* line 31
WIT == <<2, 325, 9375, 28178, 450775, 9780504, 1795265022>>

\* line 20: the call of is_prime on p
ConstInit(p) ==
    [p |-> p, at |-> "entry", new |-> NewInit(p), s |-> 0, t |-> p, i |-> 0,
     a |-> p, pw |-> [res |-> p, val |-> p, exp |-> p], x |-> p,
     found |-> FALSE, j |-> 0, ret |-> FALSE]

\* lines 21-23
ConstEntry(st) ==
    IF st.p = FromInt(1, 8) \/ Bit(st.p, 0) = 0
    THEN Return(st, st.p = FromInt(2, 8))
    ELSE [st EXCEPT !.at = "new"]

\* line 25: Montgomery::<u64>::new(p), one step of it at a time
ConstNew(st) ==
    IF st.new.at = "done" THEN [st EXCEPT !.at = "split"]
    ELSE [st EXCEPT !.new = NewStep(@)]

\* lines 27-28
ConstSplit(st) ==
    LET m == wrapping_sub(st.p, FromInt(1, 8))
        s == trailing_zeros(m)
    IN  [st EXCEPT !.s = s, !.t = Shr(m, s), !.at = "loop"]

\* a variant of lines 32-36 without the test of line 34: a witness that
\* reduces to 0 is tried like any other
ConstLoopNoSkip(st) ==
    LET a  == Rem(FromInt(WIT[st.i + 1], 8), st.p)
        am == Montgomery_convert(Context(st.new), a)
    IN  IF ~(st.i < Len(WIT)) THEN Return(st, TRUE)
        ELSE [st EXCEPT !.a = am, !.pw = PowInit(Context(st.new), am, st.t),
                        !.at = "pow"]

\* lines 32-36 and 53: the test of the loop over WIT; a = WIT[i] % p, and
\* for a # 0 a = mont.convert(a) and the call mont.pow(a, t) begins, for
\* a = 0 the witness is skipped
ConstLoop(st) ==
    LET a  == Rem(FromInt(WIT[st.i + 1], 8), st.p)
        am == Montgomery_convert(Context(st.new), a)
    IN  IF ~(st.i < Len(WIT)) THEN Return(st, TRUE)
        ELSE IF ~IsZero(a)
             THEN [st EXCEPT !.a = am, !.pw = PowInit(Context(st.new), am, st.t),
                             !.at = "pow"]
             ELSE [st EXCEPT !.i = @ + 1]

\* line 36: mont.pow(a, t), one test of its loop at a time
ConstPow(st) ==
    IF PowCond(st.pw) THEN [st EXCEPT !.pw = PowIter(Context(st.new), @)]
    ELSE [st EXCEPT !.x = st.pw.res, !.at = "found"]

\* lines 39-42: found = at == mont.r || at == p - mont.r; j = 1
ConstFound(st) ==
    [st EXCEPT !.found = st.x = st.new.r \/ st.x = wrapping_sub(st.p, st.new.r),
               !.j = 1, !.at = "scan"]

\* lines 43-47: one test of `j < s && !found`, and the body if it holds
ConstScan(st) ==
    IF st.j < st.s /\ ~st.found
    THEN LET sq == Montgomery_multiply(Context(st.new), st.x, st.x)
         IN  [st EXCEPT !.x = sq,
                        !.found = @ \/ sq = wrapping_sub(st.p, st.new.r),
                        !.j = @ + 1]
    ELSE [st EXCEPT !.at = "after"]

\* lines 49-53: a witness that found nothing ends the call
ConstAfter(st) ==
    IF ~st.found THEN Return(st, FALSE)
    ELSE [st EXCEPT !.i = @ + 1, !.at = "loop"]

\* ------------------------------------------------------------------------
\* Arithmetic the claims are stated in
\* ------------------------------------------------------------------------

\* the number hi * 10^9 + lo as a value of n digits
Dec(hi, lo, n) ==
    wrapping_add(wrapping_mul(FromInt(hi, n), FromInt(1000000000, n)), FromInt(lo, n))

\* 2^W - 1 - k as a value of n digits
TopMinus(k, n) == wrapping_sub(Cast(<<>>, n), FromInt(k + 1, n))

\* largest k with k * k <= v
RECURSIVE IsqrtIn(_, _, _)
IsqrtIn(v, lo, hi) ==
    IF lo >= hi THEN lo
    ELSE LET mid == (lo + hi + 1) \div 2
         IN  IF mid <= v \div mid THEN IsqrtIn(v, mid, hi) ELSE IsqrtIn(v, lo, mid - 1)

Isqrt(v) == IsqrtIn(v, 0, Min(v, 46340))

\* primality by trial division
TrialPrime(v) == v >= 2 /\ \A d \in 2..Isqrt(v) : v % d # 0

\* the least prime factor of v >= 2
LeastFactor(v) == CHOOSE d \in 2..v : v % d = 0 /\ \A e \in 2..(d - 1) : v % e # 0

\* floor(log2(v)) for v >= 1
RECURSIVE Log2(_)
Log2(v) == IF v <= 1 THEN 0 ELSE 1 + Log2(v \div 2)

\* a * b mod N by the remainder of the exact product (values of one type)
ModMul(a, b, N) ==
    LET n == Len(N)
    IN  Cast(Rem(Cast(Product(a, b), 2 * n), Cast(N, 2 * n)), n)

\* a^e mod N, e an integer: bit by bit from the highest, st is [i, acc] and
\* acc becomes acc^2 * a^(bit i of e)
RECURSIVE ModPowBits(_, _, _, _)
ModPowBits(a, e, N, st) ==
    IF st.i < 0 THEN st.acc
    ELSE ModPowBits(a, e, N,
            [[i |-> st.i - 1, acc |-> ModMul(st.acc, st.acc, N)]
                EXCEPT !.acc = IF (e \div 2^st.i) % 2 = 1 THEN ModMul(@, a, N) ELSE @])

ModPow(a, e, N) ==
    ModPowBits(Rem(a, N), e, N, [i |-> Log2(e), acc |-> Rem(FromInt(1, Len(N)), N)])

\* x * 2^W mod N
TimesR(x, N) ==
    LET n == Len(N)
    IN  Cast(Rem(Shl(Cast(x, 2 * n), 8 * n), Cast(N, 2 * n)), n)

Odd(x) == Bit(x, 0) = 1

\* primes above 2^31: the two of the table PRIME of the tests of lib.rs,
\* and 2^32 - 5, 2^61 - 1, 2^64 - 59
LargePrimes ==
    {Dec(67280, 421310721, 8), Dec(999999999, 999999989, 8),
     TopMinus(4, 4), Cast(TopMinus(4, 4), 8),
     wrapping_sub(Shl(FromInt(1, 8), 61), FromInt(1, 8)), TopMinus(58, 8)}

\* composites above 2^31 with a factor of each: those of the table NO_PRIME
\* of the tests of lib.rs, the strong pseudoprimes 3215031751 and
\* 3825123056546413051, 65521^2, 2^32 - 1, 2^32 + 1 and 2^64 - 1
LargeComposites ==
    {<<Dec(4, 759123141, 8), 48781>>,
     <<Dec(1122, 4669633, 8), 611557>>,
     <<Dec(21652, 684502221, 8), 3290341>>,
     <<Dec(31858, 317218647, 8), 2822159>>,
     <<Dec(47636, 622961201, 8), 4880401>>,
     <<Dec(55245, 642489451, 8), 3716371>>,
     <<Dec(3071837, 692357849, 8), 24786439>>,
     <<Dec(3770579, 582154547, 8), 30702523>>,
     <<Dec(7999252, 175582851, 8), 9227>>,
     <<Dec(585226005, 592931977, 8), 382500329>>,
     <<Dec(3, 215031751, 4), 151>>,
     <<Dec(3, 215031751, 8), 151>>,
     <<wrapping_add(wrapping_mul(Dec(3, 825123056, 8), FromInt(1000000000, 8)),
                    FromInt(546413051, 8)), 149491>>,
     <<Dec(4, 293001441, 4), 65521>>,
     <<TopMinus(0, 4), 3>>,
     <<Cast(TopMinus(0, 4), 8), 3>>,
     <<Dec(4, 294967297, 8), 641>>,
     <<TopMinus(0, 8), 3>>}

\* p is prime: by trial division, above 2^31 by the tables
IsPrimeNumber(p) == IF FitsInt(p) THEN TrialPrime(ToInt(p)) ELSE p \in LargePrimes

\* p is composite, 0 or 1: by trial division, above 2^31 by a factor
IsNoPrimeNumber(p) ==
    IF FitsInt(p) THEN ~TrialPrime(ToInt(p))
    ELSE \E c \in LargeComposites :
            c[1] = p /\ IsZero(Rem(p, FromInt(c[2], Len(p))))

\* ------------------------------------------------------------------------
\* IsPrime::is_prime as a state machine on the variable mr: one action for
\* each place of control.  The actions are part of every specification
\* that calls is_prime.
\* ------------------------------------------------------------------------

TraitEntry ==
    /\ mr.at = "entry"
    /\ mr' = IsPrimeEntry(mr)
    /\ UNCHANGED <<mg, iters, op, sieve, innerw, outerw, query, input, cf, skips>>

TraitCascade ==
    /\ mr.at = "cascade"
    /\ mr' = IsPrimeCascade(mr)
    /\ UNCHANGED <<mg, iters, op, sieve, innerw, outerw, query, input, cf, skips>>

TraitMemo ==
    /\ mr.at = "memo"
    /\ mr' = IsPrimeMemo(mr)
    /\ UNCHANGED <<mg, iters, op, sieve, innerw, outerw, query, input, cf, skips>>

TraitNew ==
    /\ mr.at = "new"
    /\ mr' = IsPrimeNew(mr)
    /\ UNCHANGED <<mg, iters, op, sieve, innerw, outerw, query, input, cf, skips>>

TraitSplit ==
    /\ mr.at = "split"
    /\ mr' = IsPrimeSplit(mr)
    /\ UNCHANGED <<mg, iters, op, sieve, innerw, outerw, query, input, cf, skips>>

TraitWitness ==
    /\ mr.at = "witness"
    /\ mr' = IsPrimeWitness(mr)
    /\ UNCHANGED <<mg, iters, op, sieve, innerw, outerw, query, input, cf, skips>>

TraitPow ==
    /\ mr.at = "pow"
    /\ mr' = IsPrimePow(mr)
    /\ UNCHANGED <<mg, iters, op, sieve, innerw, outerw, query, input, cf, skips>>

TraitCheck ==
    /\ mr.at = "check"
    /\ mr' = IsPrimeCheck(mr)
    /\ UNCHANGED <<mg, iters, op, sieve, innerw, outerw, query, input, cf, skips>>

TraitScan ==
    /\ mr.at = "scan"
    /\ mr' = IsPrimeScan(mr)
    /\ UNCHANGED <<mg, iters, op, sieve, innerw, outerw, query, input, cf, skips>>

\* no call of is_prime has begun
Idle == [at |-> "idle"]

\* ------------------------------------------------------------------------
\* The linear sieve as a state machine: the construction new(), step by
\* step, then one call of is_prime or of factors on the sieve it returned.
\* innerw[k] and outerw[k] count the writes of arr[k] by the inner loop
\* (line 61) and by the outer step (line 57).
\* ------------------------------------------------------------------------

\* every LEN up to MaxLen is constructed
MaxLen == 16
\* and one LEN above the 255 entries of SMALL_PRIMES_MEMO
BigLen == 300
\* calls are made with every value below LEN + Extra
Extra == 3

SieveLens == 0..MaxLen \cup {BigLen}

NoQuery == [op |-> "none", arg |-> 0, status |-> "none", ret |-> FALSE,
            it |-> LinearSieve_factors(0)]

SieveSpecInit ==
    /\ \E LEN \in SieveLens :
          /\ sieve = SieveInit(LEN)
          /\ innerw = [k \in 0..(LEN - 1) |-> 0]
          /\ outerw = [k \in 0..(LEN - 1) |-> 0]
    /\ query = NoQuery
    /\ mr = Idle
    /\ mg = "off" /\ iters = "off" /\ op = "off"
    /\ input = "off" /\ cf = "off" /\ skips = "off"

\* lines 53-59
SieveOuterStep ==
    /\ sieve.at = "outer"
    /\ sieve' = SieveOuter(sieve)
    /\ outerw' = IF sieve'.at = "inner" /\ sieve'.pc # sieve.pc
                 THEN [outerw EXCEPT ![sieve.i] = @ + 1] ELSE outerw
    /\ UNCHANGED <<mg, iters, op, innerw, query, mr, input, cf, skips>>

\* lines 60-64
SieveInnerStep ==
    /\ sieve.at = "inner"
    /\ sieve' = SieveInner(sieve)
    /\ innerw' = IF sieve'.at = "inner"
                 THEN [innerw EXCEPT ![sieve.primes[sieve.j] * sieve.i] = @ + 1]
                 ELSE innerw
    /\ UNCHANGED <<mg, iters, op, outerw, query, mr, input, cf, skips>>

\* is_prime(value) on the finished sieve; for a value in range the trait's
\* is_prime is called on the same value (usize)
CallIsPrime ==
    /\ sieve.at = "done" /\ query.op = "none"
    /\ \E value \in 0..(sieve.LEN + Extra - 1) :
          /\ query' = [NoQuery EXCEPT !.op = "is_prime", !.arg = value,
                          !.status = IsPrimeCall(sieve.arr, value).status,
                          !.ret = IsPrimeCall(sieve.arr, value).ret]
          /\ mr' = IF value < sieve.LEN THEN IsPrimeInit(FromInt(value, 8)) ELSE mr
    /\ UNCHANGED <<mg, iters, op, sieve, innerw, outerw, input, cf, skips>>

\* factors(value) on the finished sieve
CallFactors ==
    /\ sieve.at = "done" /\ query.op = "none"
    /\ \E value \in 0..(sieve.LEN + Extra - 1) :
          query' = [NoQuery EXCEPT !.op = "factors", !.arg = value,
                       !.status = "iter", !.it = LinearSieve_factors(value)]
    /\ UNCHANGED <<mg, iters, op, sieve, innerw, outerw, mr, input, cf, skips>>

\* next() on the iterator, until it returns None or panics
CallNext ==
    /\ query.op = "factors" /\ query.status = "iter"
    /\ \E it \in {FactorsNext(sieve.arr, query.it)} :
          query' = [query EXCEPT !.it = it, !.status = it.status]
    /\ UNCHANGED <<mg, iters, op, sieve, innerw, outerw, mr, input, cf, skips>>

SieveNext ==
    \/ SieveOuterStep
    \/ SieveInnerStep
    \/ CallIsPrime
    \/ CallFactors
    \/ CallNext
    \/ TraitEntry
    \/ TraitCascade
    \/ TraitMemo
    \/ TraitNew
    \/ TraitSplit
    \/ TraitWitness
    \/ TraitPow
    \/ TraitCheck
    \/ TraitScan

SpecSieve == SieveSpecInit /\ [][SieveNext]_vars

\* the product of the numbers of a sequence
RECURSIVE SeqProduct(_)
SeqProduct(q) == IF q = <<>> THEN 1 ELSE Head(q) * SeqProduct(Tail(q))

\* C3: after new() arr[i] is the least prime factor of i for 2 <= i < LEN,
\* so arr[i] = i exactly for a prime i; is_prime(0) and is_prime(1) are
\* false; is_prime(i) of the sieve is what trial division says, and what
\* the trait's is_prime returns for i
C3_SieveTable ==
    /\ (sieve.at = "done" /\ query.op = "none") =>
          /\ \A i \in 2..(sieve.LEN - 1) :
                /\ sieve.arr[i] = LeastFactor(i)
                /\ LinearSieve_is_prime(sieve.arr, i) = TrialPrime(i)
          /\ \A i \in 0..Min(1, sieve.LEN - 1) : ~LinearSieve_is_prime(sieve.arr, i)
    /\ (query.op = "is_prime" /\ query.status = "ok") =>
          /\ query.ret = TrialPrime(query.arg)
          /\ mr.at = "return" => mr.ret = query.ret

\* the sieve of BigLen and the trait's witness loop both found 257 prime
C3_Witness ==
    /\ sieve.at = "done" /\ sieve.LEN = BigLen
    /\ query.op = "is_prime" /\ query.arg = 257 /\ query.ret
    /\ mr.at = "return" /\ mr.ret /\ mr.new.at = "done"

\* C4: for i in [2, LEN) factors(i) yields primes in non-decreasing order
\* whose product is i, and ends (after at most log2(i) of them); for i in
\* {0, 1} it yields nothing
C4_Factors ==
    (query.op = "factors" /\ query.arg < sieve.LEN) =>
        LET out == query.it.out
        IN  /\ query.status # "panic"
            /\ \A k \in 1..Len(out) : TrialPrime(out[k])
            /\ \A k \in 1..(Len(out) - 1) : out[k] <= out[k + 1]
            /\ query.arg >= 2 =>
                  /\ SeqProduct(out) * query.it.value = query.arg
                  /\ Len(out) <= Log2(query.arg)
                  /\ query.status = "end" => SeqProduct(out) = query.arg
            /\ query.arg < 2 => out = <<>>

\* factors(60) has ended after 2, 2, 3, 5
C4_Witness ==
    /\ query.op = "factors" /\ query.arg = 60 /\ query.status = "end"
    /\ query.it.out = <<2, 2, 3, 5>>

\* C5: for LEN >= 1 and value >= LEN, factors(value) never completes
\* normally: it yields no factor and its sequence does not end
C5_FactorsFaults ==
    (query.op = "factors" /\ sieve.LEN >= 1 /\ query.arg >= sieve.LEN) =>
        /\ query.it.out = <<>>
        /\ query.status # "end"

\* C6: every index is written at most once; the inner loop writes the
\* composites, each with its least prime factor, the outer step the primes;
\* when new() is done every composite and every prime has been written;
\* no index is out of bounds
C6_Writes ==
    query.op = "none" =>
        /\ sieve.at # "panic"
        /\ \A k \in 0..(sieve.LEN - 1) :
              /\ innerw[k] + outerw[k] <= 1
              /\ innerw[k] = 1 =>
                    k >= 4 /\ ~TrialPrime(k) /\ sieve.arr[k] = LeastFactor(k)
              /\ outerw[k] = 1 => TrialPrime(k) /\ sieve.arr[k] = k
              /\ (sieve.at = "done" /\ k >= 2) =>
                    IF TrialPrime(k) THEN outerw[k] = 1 ELSE innerw[k] = 1

\* new() is done for BigLen, having written 299 = 13 * 23 in the inner loop
\* and 293 in the outer step
C6_Witness ==
    /\ sieve.at = "done" /\ sieve.LEN = BigLen /\ query.op = "none"
    /\ innerw[299] = 1 /\ outerw[293] = 1 /\ sieve.arr[299] = 13

\* ------------------------------------------------------------------------
\* Calls of the trait's is_prime on inputs of the four types
\* ------------------------------------------------------------------------

\* every u16 up to MaxP16 is tried besides every u8
MaxP16 == 600

\* the u16 of the tables of the tests of lib.rs, the strong pseudoprimes to
\* base 2 below 10000, and the largest u16
U16Table ==
    {1105, 1729, 2047, 2465, 2821, 3277, 4033, 4681, 5329, 6601, 8321, 8911,
     10585, 15841, 29341, 41041, 46657, 49141, 52633, 62745, 63973, 65521,
     65533, 65535}

\* u32 below 2^31: the tables of the tests of lib.rs (those not u16), and
\* the corners of the types
U32Table ==
    {0, 1, 2, 3, 57, 97, 255, 257, 561, 2047, 5329, 49141, 65535, 65537, 75361,
     101101, 115921, 126217, 162401, 172081, 188461, 252601, 278545, 294409,
     314821, 334153, 340561, 399001, 410041, 449065, 488881, 512461, 998244353,
     1000000007, 1795265021, 1795265023, 2147483647}

\* u64 below 2^31: small ones, and those about the 1795265022 of line 43
U64Table ==
    {0, 1, 2, 3, 5, 57, 97, 251, 253, 255, 257, 561, 1729, 2047, 5329, 49141,
     512461, 998244353, 1000000007, 1795265021, 1795265022, 1795265023,
     1795265047, 2147483647}

TraitInputs ==
    {FromInt(v, 1) : v \in 0..255}
    \cup {FromInt(v, 2) : v \in 0..MaxP16}
    \cup {FromInt(v, 2) : v \in U16Table}
    \cup {FromInt(v, 4) : v \in U32Table}
    \cup {FromInt(v, 8) : v \in U64Table}
    \cup {p \in LargePrimes : TRUE}
    \cup {c[1] : c \in LargeComposites}

TraitInit ==
    /\ \E p \in TraitInputs : input = p /\ mr = IsPrimeInit(p)
    /\ mg = "off" /\ iters = "off" /\ op = "off"
    /\ sieve = "off" /\ innerw = "off" /\ outerw = "off" /\ query = "off"
    /\ cf = "off" /\ skips = "off"

TraitNext ==
    \/ TraitEntry
    \/ TraitCascade
    \/ TraitMemo
    \/ TraitNew
    \/ TraitSplit
    \/ TraitWitness
    \/ TraitPow
    \/ TraitCheck
    \/ TraitScan

SpecTrait == TraitInit /\ [][TraitNext]_vars

\* C1: for an input p of any of the four types, is_prime(p) returns true
\* if and only if p is prime
C1_TraitCorrect ==
    mr.at = "return" =>
        /\ mr.ret => IsPrimeNumber(input)
        /\ ~mr.ret => IsNoPrimeNumber(input)

\* is_prime has returned false for the u8 255, after the witness loop
C1_Witness ==
    /\ mr.at = "return" /\ ~mr.ret
    /\ input = FromInt(255, 1) /\ mr.new.at = "done"

\* C10: at the witness loop p is odd and above every witness of its type,
\* so each witness a has 0 < a < p; Montgomery::new is called on an odd
\* modulus only, and does not panic
C10_WitnessLoop ==
    /\ mr.at \in {"witness", "pow", "check", "scan"} =>
          /\ Odd(mr.p)
          /\ \A k \in 1..Len(Witnesses(Len(mr.p))) :
                /\ 0 < Witnesses(Len(mr.p))[k]
                /\ Lt(FromInt(Witnesses(Len(mr.p))[k], Len(mr.p)), mr.p)
    /\ mr.at \in {"new", "split"} => Odd(mr.p) /\ mr.new.modulo = mr.p
    /\ mr.new.at # "panic"
    /\ mr.new.at # "r" => Odd(mr.new.modulo)

\* the smallest u64 that is not judged as a u32 is at the witness loop
C10_Witness ==
    /\ mr.at = "witness" /\ mr.wi = 1
    /\ mr.p = FromInt(1795265023, 8)

\* ------------------------------------------------------------------------
\* Calls of the const fn is_prime, each followed by a call of the trait's
\* is_prime on the same u64; skips counts the witnesses the const fn
\* skipped
\* ------------------------------------------------------------------------

\* every u64 up to MaxConstP is tried
MaxConstP == 40

\* divisors of witnesses, values of the tables of the tests of lib.rs, and
\* those about the 1795265022 of line 43 of lib.rs
ConstTable ==
    {57, 65, 73, 193, 325, 561, 2047, 5329, 9375, 1795265021, 1795265022,
     1795265023, 998244353}

ConstInputs ==
    {FromInt(v, 8) : v \in 0..MaxConstP}
    \cup {FromInt(v, 8) : v \in ConstTable}
    \cup {Dec(67280, 421310721, 8), Dec(999999999, 999999989, 8),
          Dec(4, 759123141, 8), Dec(585226005, 592931977, 8),
          Dec(3071837, 692357849, 8), TopMinus(58, 8), TopMinus(0, 8)}

ConstSpecInit ==
    /\ \E p \in ConstInputs : input = p /\ cf = ConstInit(p)
    /\ skips = 0
    /\ mr = Idle
    /\ mg = "off" /\ iters = "off" /\ op = "off"
    /\ sieve = "off" /\ innerw = "off" /\ outerw = "off" /\ query = "off"

CfEntry ==
    /\ cf.at = "entry"
    /\ cf' = ConstEntry(cf)
    /\ UNCHANGED <<mg, iters, op, sieve, innerw, outerw, query, mr, input, skips>>

CfNew ==
    /\ cf.at = "new"
    /\ cf' = ConstNew(cf)
    /\ UNCHANGED <<mg, iters, op, sieve, innerw, outerw, query, mr, input, skips>>

CfSplit ==
    /\ cf.at = "split"
    /\ cf' = ConstSplit(cf)
    /\ UNCHANGED <<mg, iters, op, sieve, innerw, outerw, query, mr, input, skips>>

CfLoop ==
    /\ cf.at = "loop"
    /\ cf' = ConstLoop(cf)
    /\ skips' = IF cf'.at = "loop" THEN skips + 1 ELSE skips
    /\ UNCHANGED <<mg, iters, op, sieve, innerw, outerw, query, mr, input>>

CfPow ==
    /\ cf.at = "pow"
    /\ cf' = ConstPow(cf)
    /\ UNCHANGED <<mg, iters, op, sieve, innerw, outerw, query, mr, input, skips>>

CfFound ==
    /\ cf.at = "found"
    /\ cf' = ConstFound(cf)
    /\ UNCHANGED <<mg, iters, op, sieve, innerw, outerw, query, mr, input, skips>>

CfScan ==
    /\ cf.at = "scan"
    /\ cf' = ConstScan(cf)
    /\ UNCHANGED <<mg, iters, op, sieve, innerw, outerw, query, mr, input, skips>>

CfAfter ==
    /\ cf.at = "after"
    /\ cf' = ConstAfter(cf)
    /\ UNCHANGED <<mg, iters, op, sieve, innerw, outerw, query, mr, input, skips>>

\* the const fn has returned: the trait's is_prime is called on the input
CallTrait ==
    /\ cf.at = "return" /\ mr.at = "idle"
    /\ mr' = IsPrimeInit(input)
    /\ UNCHANGED <<mg, iters, op, sieve, innerw, outerw, query, input, cf, skips>>

ConstNext ==
    \/ CfEntry
    \/ CfNew
    \/ CfSplit
    \/ CfLoop
    \/ CfPow
    \/ CfFound
    \/ CfScan
    \/ CfAfter
    \/ CallTrait
    \/ TraitEntry
    \/ TraitCascade
    \/ TraitMemo
    \/ TraitNew
    \/ TraitSplit
    \/ TraitWitness
    \/ TraitPow
    \/ TraitCheck
    \/ TraitScan

SpecConst == ConstSpecInit /\ [][ConstNext]_vars

\* C2: the const fn is_prime(p) returns true if and only if p is prime,
\* also when it skips witnesses, and the trait's is_prime returns the same
\* for the u64 p
C2_ConstCorrect ==
    cf.at = "return" =>
        /\ cf.ret => IsPrimeNumber(input)
        /\ ~cf.ret => IsNoPrimeNumber(input)
        /\ mr.at = "return" => mr.ret = cf.ret

\* the const fn has returned true for 13 having skipped two witnesses,
\* and the trait's is_prime has returned
C2_Witness ==
    /\ cf.at = "return" /\ cf.ret /\ skips = 2
    /\ input = FromInt(13, 8) /\ mr.at = "return"

\* ------------------------------------------------------------------------
\* The Montgomery engine as a state machine: one call of new, step by
\* step, then one operation on the context it returned (the context is
\* immutable, so one operation after another shows nothing more)
\* ------------------------------------------------------------------------

\* u16 moduli 0..MaxMod16 are tried besides every u8 modulo
MaxMod16 == 40
\* every pair of operands below a modulo of at most MulExhaust is tried
MulExhaust == 33
\* the loop counter stops counting here (the loop of an even modulo goes on)
IterCap == 8
\* exponents up to MaxRefExp are compared with a power computed bit by bit
MaxRefExp == 255

Moduli ==
    {FromInt(v, 1) : v \in 0..255}
    \cup {FromInt(v, 2) : v \in 0..MaxMod16}
    \cup {FromInt(v, 2) : v \in {255, 257, 32768, 32769, 65521, 65534, 65535}}
    \cup {FromInt(v, 4) : v \in {0, 1, 2, 3, 255, 65537, 998244353, 2147483646}}
    \cup {Dec(3, 215031751, 4), TopMinus(0, 4), TopMinus(4, 4), TopMinus(1, 4)}
    \cup {FromInt(v, 8) : v \in {0, 1, 2, 3, 255, 1000000007, 1795265023}}
    \cup {Dec(4, 759123141, 8), Dec(999999999, 999999989, 8),
          Dec(585226005, 592931977, 8), TopMinus(0, 8), TopMinus(58, 8),
          TopMinus(1, 8)}

\* the operands tried on a context: all residues of a small modulo, the
\* corners of a large one
Operands(st) ==
    LET n == Len(st.modulo)
        N == st.modulo
    IN  IF FitsInt(N) /\ ToInt(N) <= MulExhaust
        THEN {FromInt(v, n) : v \in 0..(ToInt(N) - 1)}
        ELSE {v \in {FromInt(0, n), FromInt(1, n), FromInt(2, n), st.r, st.r2,
                     Shr(N, 1), wrapping_sub(N, FromInt(1, n)),
                     wrapping_sub(N, FromInt(2, n))} : Lt(v, N)}

PowBases(st) ==
    LET n == Len(st.modulo)
    IN  IF FitsInt(st.modulo) /\ ToInt(st.modulo) <= MulExhaust THEN Operands(st)
        ELSE {v \in Operands(st) :
                 v \in {FromInt(2, n), wrapping_sub(st.modulo, FromInt(1, n))}}

\* the exponents tried: small ones, and N - 1 when the power is known, by
\* computing it or, for a prime N, by Fermat's theorem
Exponents(st) ==
    LET n == Len(st.modulo)
        e == wrapping_sub(st.modulo, FromInt(1, n))
    IN  {FromInt(0, n), FromInt(1, n), FromInt(2, n), FromInt(5, n)}
        \cup IF (FitsInt(e) /\ ToInt(e) <= MaxRefExp) \/ IsPrimeNumber(st.modulo)
             THEN {e} ELSE {}

\* a^e mod N for the bases and exponents tried
PowReference(a, e, N) ==
    IF FitsInt(e) /\ ToInt(e) <= MaxRefExp THEN ModPow(a, ToInt(e), N)
    ELSE IF IsZero(Rem(a, N)) THEN Cast(<<>>, Len(N))
    ELSE FromInt(1, Len(N))

NoOp ==
    [name |-> "none", a |-> <<>>, b |-> <<>>, out |-> <<>>, ovf |-> FALSE, f |-> 0,
     pw |-> <<>>, done |-> FALSE]

MontInit ==
    /\ \E m \in Moduli : mg = NewInit(m)
    /\ iters = 0
    /\ op = NoOp
    /\ sieve = "off" /\ innerw = "off" /\ outerw = "off" /\ query = "off"
    /\ mr = "off" /\ input = "off" /\ cf = "off" /\ skips = "off"

\* line 53
NewRemainderR ==
    /\ mg.at = "r"
    /\ mg' = NewStep(mg)
    /\ UNCHANGED <<iters, op, sieve, innerw, outerw, query, mr, input, cf, skips>>

\* line 54 (and inv = modulo, line 56)
NewRemainderR2 ==
    /\ mg.at = "r2"
    /\ mg' = NewStep(mg)
    /\ UNCHANGED <<iters, op, sieve, innerw, outerw, query, mr, input, cf, skips>>

\* lines 57-59: one test of the loop condition, and the body if it holds
NewLoop ==
    /\ mg.at = "loop"
    /\ mg' = NewStep(mg)
    /\ iters' = IF InvCond(mg.modulo, mg.inv) /\ iters < IterCap
                THEN iters + 1 ELSE iters
    /\ UNCHANGED <<op, sieve, innerw, outerw, query, mr, input, cf, skips>>

DoMultiply ==
    /\ mg.at = "done" /\ op.name = "none"
    /\ \E a \in Operands(mg), b \in Operands(mg) :
          \E l \in {MultiplyParts(Context(mg), a, b)} :
             op' = [NoOp EXCEPT !.name = "multiply", !.a = a, !.b = b,
                                !.out = Montgomery_multiply(Context(mg), a, b),
                                !.ovf = l.ovf, !.f = l.f, !.done = TRUE]
    /\ UNCHANGED <<mg, iters, sieve, innerw, outerw, query, mr, input, cf, skips>>

DoConvert ==
    /\ mg.at = "done" /\ op.name = "none"
    /\ \E a \in Operands(mg) :
          \E l \in {MultiplyParts(Context(mg), a, mg.r2)} :
             op' = [NoOp EXCEPT !.name = "convert", !.a = a, !.b = mg.r2,
                                !.out = Montgomery_convert(Context(mg), a),
                                !.ovf = l.ovf, !.f = l.f, !.done = TRUE]
    /\ UNCHANGED <<mg, iters, sieve, innerw, outerw, query, mr, input, cf, skips>>

\* the call pow(convert(a), e) begins
DoPow ==
    /\ mg.at = "done" /\ op.name = "none"
    /\ \E a \in PowBases(mg), e \in Exponents(mg) :
          \E x \in {Montgomery_convert(Context(mg), a)} :
             op' = [NoOp EXCEPT !.name = "pow", !.a = a, !.b = e,
                                !.pw = PowInit(Context(mg), x, e)]
    /\ UNCHANGED <<mg, iters, sieve, innerw, outerw, query, mr, input, cf, skips>>

\* lines 42-49: one test of the loop of pow, then its body or the return
PowStep ==
    /\ op.name = "pow" /\ ~op.done
    /\ op' = IF PowCond(op.pw)
             THEN [op EXCEPT !.pw = PowIter(Context(mg), @)]
             ELSE [op EXCEPT !.out = op.pw.res, !.done = TRUE]
    /\ UNCHANGED <<mg, iters, sieve, innerw, outerw, query, mr, input, cf, skips>>

MontNext ==
    \/ NewRemainderR
    \/ NewRemainderR2
    \/ NewLoop
    \/ DoMultiply
    \/ DoConvert
    \/ DoPow
    \/ PowStep

SpecMont == MontInit /\ [][MontNext]_vars

\* C7: for an odd modulo N of any width, new(N) returns a context with
\* modulo = N, r = 2^W mod N, r2 = (2^W)^2 mod N and N * modulo_inv = 1
\* modulo 2^W
C7_NewContext ==
    (mg.at = "done" /\ op.name = "none" /\ Odd(mg.modulo)) =>
        LET N == mg.modulo
            n == Len(N)
            c == Context(mg)
        IN  /\ c.modulo = N
            /\ c.r = ModPow(FromInt(2, n), 8 * n, N)
            /\ c.r2 = ModPow(FromInt(2, n), 16 * n, N)
            /\ Cast(Product(N, c.modulo_inv), n) = FromInt(1, n)

\* a u64 context has been returned whose r and r2 differ
C7_Witness ==
    /\ mg.at = "done" /\ op.name = "none"
    /\ Len(mg.modulo) = 8 /\ mg.modulo = Dec(999999999, 999999989, 8)
    /\ mg.r # mg.r2

\* C8: on a context of an odd N, multiply(a, b) for a, b < N is below N and
\* is a * b / 2^W modulo N, adding N at most once and with no overflow of
\* `*`; convert(a) is a * 2^W mod N; pow(convert(a), e) is
\* convert(a^e mod N), and r for e = 0
C8_Multiply ==
    LET N == mg.modulo
        n == Len(N)
    IN  /\ op.name = "multiply" =>
              /\ Lt(op.out, N)
              /\ TimesR(op.out, N) = ModMul(op.a, op.b, N)
              /\ ~op.ovf
              /\ op.f \in {0, 1}
        /\ op.name = "convert" =>
              /\ op.out = TimesR(op.a, N)
              /\ ~op.ovf
        /\ (op.name = "pow" /\ op.done) =>
              \A y \in {PowReference(op.a, op.b, N)} :
                 /\ op.out = Montgomery_convert(Context(mg), y)
                 /\ op.out = TimesR(y, N)
                 /\ IsZero(op.b) => op.out = mg.r

\* a u64 multiply whose subtraction borrowed, so that modulo was added
C8_Witness ==
    /\ op.name = "multiply" /\ op.f = 1 /\ Len(mg.modulo) = 8
    /\ ~IsZero(op.out) /\ ~FitsInt(mg.modulo)

\* C9: for an odd modulo the loop of new runs its body at most log2(W)
\* times; for an even modulo its condition stays true and new never returns
C9_NewtonLoop ==
    /\ (Odd(mg.modulo) /\ mg.at \in {"loop", "done"}) =>
          iters <= Log2(BITS(mg.modulo))
    /\ ~Odd(mg.modulo) =>
          /\ mg.at # "done"
          /\ mg.at = "loop" => InvCond(mg.modulo, mg.inv)

\* new has returned for a u64 modulo after the body ran five times
C9_Witness ==
    mg.at = "done" /\ Len(mg.modulo) = 8 /\ iters = 5

====
